---- MODULE Spec2Model ----
(***************************************************************************)
(* A model of the chess rules engine of src/chess.py: the Board, the       *)
(* per-piece candidate generators, the legality filter, the game-state     *)
(* resolver and Board.make_move.                                            *)
(*                                                                         *)
(* A square is <<row, col>>, row 0 is Black's back rank, row 7 White's.     *)
(* A piece is a record [color, piece_type, has_moved]; the image of a       *)
(* piece is presentation only and is left out.  A Python piece object      *)
(* is referenced by exactly one board cell, so the record in the cell       *)
(* carries the object's has_moved flag.                                     *)
(* A Move is the record of the fields make_move reads: piece_moved and      *)
(* piece_captured are read by no operation of the program and are left out. *)
(***************************************************************************)
EXTENDS Integers, Sequences, FiniteSets, TLC

BOARD_SIZE == 8
SQUARE_SIZE == 80
WINDOW_SIZE == BOARD_SIZE * SQUARE_SIZE

Rows == 0 .. (BOARD_SIZE - 1)
Squares == Rows \X Rows

WHITE == "WHITE"
BLACK == "BLACK"
PieceColor == {WHITE, BLACK}

KING == "KING"
QUEEN == "QUEEN"
ROOK == "ROOK"
BISHOP == "BISHOP"
KNIGHT == "KNIGHT"
PAWN == "PAWN"
PieceType == {KING, QUEEN, ROOK, BISHOP, KNIGHT, PAWN}

ACTIVE == "ACTIVE"
CHECK == "CHECK"
CHECKMATE == "CHECKMATE"
STALEMATE == "STALEMATE"
GameState == {ACTIVE, CHECK, CHECKMATE, STALEMATE}

\* Python's None for a board cell, for a promotion kind, and for a square.
None == [color |-> "None", piece_type |-> "None", has_moved |-> FALSE]
NoType == "None"
NoSquare == <<-1, -1>>

\* Mutant of Piece: a new piece counts as moved.
PieceMarked(color, piece_type) ==
    [color |-> color, piece_type |-> piece_type, has_moved |-> TRUE]

\* Piece.__init__: a new piece has has_moved = False.
Piece(color, piece_type) ==
    [color |-> color, piece_type |-> piece_type, has_moved |-> FALSE]

\* Move.__init__ (without piece_moved / piece_captured).
Move(start, end, is_castle, is_promotion, is_en_passant, promotion_piece) ==
    [start |-> start, end |-> end, is_castle |-> is_castle,
     is_promotion |-> is_promotion, is_en_passant |-> is_en_passant,
     promotion_piece |-> promotion_piece]

PlainMove(start, end) == Move(start, end, FALSE, FALSE, FALSE, NoType)

Other(color) == IF color = WHITE THEN BLACK ELSE WHITE

Abs(x) == IF x < 0 THEN -x ELSE x

\* ---- sequence helpers (Python list comprehension / concatenation) ----
RECURSIVE Flatten(_)
Flatten(ss) == IF ss = <<>> THEN <<>> ELSE Head(ss) \o Flatten(Tail(ss))

ToSet(s) == {s[i] : i \in 1 .. Len(s)}

\* Row-major index of a square: the order of every "for row .. for col" scan.
Idx(sq) == sq[1] * BOARD_SIZE + sq[2]

InBounds(r, c) == 0 <= r /\ r < BOARD_SIZE /\ 0 <= c /\ c < BOARD_SIZE

\* Board.get_piece
get_piece(b, position) ==
    IF InBounds(position[1], position[2]) THEN b.board[position] ELSE None

\* ---- candidate generation ----
KingDirections ==
    << <<-1, -1>>, <<-1, 0>>, <<-1, 1>>,
       <<0, -1>>,             <<0, 1>>,
       <<1, -1>>,  <<1, 0>>,  <<1, 1>> >>

RookDirections == << <<-1, 0>>, <<1, 0>>, <<0, -1>>, <<0, 1>> >>

BishopDirections == << <<-1, -1>>, <<-1, 1>>, <<1, -1>>, <<1, 1>> >>

\* Mutant of KnightOffsets: the offset (1, 2) is missing.
KnightOffsetsButOne ==
    << <<-2, -1>>, <<-2, 1>>,
       <<-1, -2>>, <<-1, 2>>,
       <<1, -2>>,
       <<2, -1>>,  <<2, 1>> >>

KnightOffsets ==
    << <<-2, -1>>, <<-2, 1>>,
       <<-1, -2>>, <<-1, 2>>,
       <<1, -2>>,  <<1, 2>>,
       <<2, -1>>,  <<2, 1>> >>

PromotionPieces == <<QUEEN, ROOK, BISHOP, KNIGHT>>

\* One-step generators (king, knight): the in-bounds offsets whose square is
\* empty or holds a piece of the other color.
MovesBy(position, kept) ==
    [i \in 1 .. Len(kept) |->
        PlainMove(position, <<position[1] + kept[i][1], position[2] + kept[i][2]>>)]

StepMoves(b, position, color, offsets) ==
    LET ok(d) == /\ InBounds(position[1] + d[1], position[2] + d[2])
                 /\ \/ get_piece(b, <<position[1] + d[1], position[2] + d[2]>>) = None
                    \/ get_piece(b, <<position[1] + d[1], position[2] + d[2]>>).color # color
    IN  MovesBy(position, SelectSeq(offsets, ok))

\* The inner "for i in range(1, BOARD_SIZE)" loop of a sliding piece along
\* one direction: it breaks at the first square that is off the board or
\* occupied, and appends that square when it holds an enemy piece.
RaySquare(position, d, i) == <<position[1] + d[1] * i, position[2] + d[2] * i>>

\* The step at which the loop breaks: BOARD_SIZE when it runs to its end.
RayStop(b, position, d) ==
    IF \E i \in 1 .. (BOARD_SIZE - 1) :
            get_piece(b, RaySquare(position, d, i)) # None
            \/ ~InBounds(RaySquare(position, d, i)[1], RaySquare(position, d, i)[2])
    THEN CHOOSE i \in 1 .. (BOARD_SIZE - 1) :
            /\ \/ get_piece(b, RaySquare(position, d, i)) # None
               \/ ~InBounds(RaySquare(position, d, i)[1], RaySquare(position, d, i)[2])
            /\ \A j \in 1 .. (i - 1) :
                    get_piece(b, RaySquare(position, d, j)) = None
    ELSE BOARD_SIZE

\* Mutant of RayUpTo: the square the loop breaks at is appended whatever
\* stands on it.
RayUpToAnyPiece(b, position, color, d, first) ==
    [i \in 1 .. (IF /\ first < BOARD_SIZE
                    /\ InBounds(RaySquare(position, d, first)[1],
                                RaySquare(position, d, first)[2])
                 THEN first ELSE first - 1)
        |-> PlainMove(position, RaySquare(position, d, i))]

\* The candidates of a loop that breaks at step `first`.
RayUpTo(b, position, color, d, first) ==
    [i \in 1 .. (IF /\ first < BOARD_SIZE
                    /\ InBounds(RaySquare(position, d, first)[1],
                                RaySquare(position, d, first)[2])
                    /\ get_piece(b, RaySquare(position, d, first)).color # color
                 THEN first ELSE first - 1)
        |-> PlainMove(position, RaySquare(position, d, i))]

RayMoves(b, position, color, d) ==
    RayUpTo(b, position, color, d, RayStop(b, position, d))

SlidingMoves(b, position, color, directions) ==
    Flatten([k \in 1 .. Len(directions) |-> RayMoves(b, position, color, directions[k])])

\* Pawn.get_possible_moves; for_attack is accepted and not read.
PawnLastRank(color, row) ==
    (row = 0 /\ color = WHITE) \/ (row = 7 /\ color = BLACK)

\* Mutant of PawnPromotions: only the queen is offered.
PawnPromotionsQueenOnly(position, end) ==
    <<Move(position, end, FALSE, TRUE, FALSE, QUEEN)>>

PawnPromotions(position, end) ==
    [k \in 1 .. Len(PromotionPieces) |->
        Move(position, end, FALSE, TRUE, FALSE, PromotionPieces[k])]

\* The en passant test of line 324.
EnPassantApplies(b, row, col, dc) == b.en_passant_target = <<row, col + dc>>

PawnForward(b, position, color) ==
    LET row == position[1]
        col == position[2]
        direction == IF color = WHITE THEN -1 ELSE 1
        start_row == IF color = WHITE THEN 6 ELSE 1
    IN  IF /\ 0 <= row + direction /\ row + direction < BOARD_SIZE
           /\ get_piece(b, <<row + direction, col>>) = None
        THEN (IF PawnLastRank(color, row + direction)
              THEN PawnPromotions(position, <<row + direction, col>>)
              ELSE <<PlainMove(position, <<row + direction, col>>)>>)
             \o
             (IF row = start_row /\ get_piece(b, <<row + 2 * direction, col>>) = None
              THEN <<PlainMove(position, <<row + 2 * direction, col>>)>>
              ELSE <<>>)
        ELSE <<>>

PawnDiagonal(b, position, color, dc) ==
    LET row == position[1]
        col == position[2]
        direction == IF color = WHITE THEN -1 ELSE 1
        end == <<row + direction, col + dc>>
        end_piece == get_piece(b, end)
    IN  IF 0 <= row + direction /\ row + direction < BOARD_SIZE
           /\ 0 <= col + dc /\ col + dc < BOARD_SIZE
        THEN (IF end_piece # None /\ end_piece.color # color
              THEN (IF PawnLastRank(color, row + direction)
                    THEN PawnPromotions(position, end)
                    ELSE <<PlainMove(position, end)>>)
              ELSE <<>>)
             \o
             (IF EnPassantApplies(b, row, col, dc)
              THEN <<Move(position, end, FALSE, FALSE, TRUE, NoType)>>
              ELSE <<>>)
        ELSE <<>>

PawnMoves(b, position, color) ==
    PawnForward(b, position, color)
        \o PawnDiagonal(b, position, color, -1)
        \o PawnDiagonal(b, position, color, 1)

RECURSIVE get_possible_moves(_, _, _)
RECURSIVE is_position_under_attack(_, _, _)
RECURSIVE is_in_check(_, _)

\* King.get_possible_moves, lines 146-165: the castling candidates.
KingsideCastle(b, position, color) ==
    LET row == position[1]
        col == position[2]
    IN  IF /\ get_piece(b, <<row, col + 1>>) = None
           /\ get_piece(b, <<row, col + 2>>) = None
           /\ get_piece(b, <<row, col + 3>>).piece_type = ROOK
           /\ ~get_piece(b, <<row, col + 3>>).has_moved
           /\ ~is_position_under_attack(b, <<row, col + 1>>, color)
           /\ ~is_position_under_attack(b, <<row, col + 2>>, color)
        THEN <<Move(position, <<row, col + 2>>, TRUE, FALSE, FALSE, NoType)>>
        ELSE <<>>

QueensideCastle(b, position, color) ==
    LET row == position[1]
        col == position[2]
    IN  IF /\ get_piece(b, <<row, col - 1>>) = None
           /\ get_piece(b, <<row, col - 2>>) = None
           /\ get_piece(b, <<row, col - 3>>) = None
           /\ get_piece(b, <<row, col - 4>>).piece_type = ROOK
           /\ ~get_piece(b, <<row, col - 4>>).has_moved
           /\ ~is_position_under_attack(b, <<row, col - 1>>, color)
           /\ ~is_position_under_attack(b, <<row, col - 2>>, color)
        THEN <<Move(position, <<row, col - 2>>, TRUE, FALSE, FALSE, NoType)>>
        ELSE <<>>

\* The guard of line 147.
CastlingConsidered(b, piece, for_attack) ==
    ~for_attack /\ ~piece.has_moved /\ ~is_in_check(b, piece.color)

KingMoves(b, position, piece, for_attack) ==
    StepMoves(b, position, piece.color, KingDirections)
        \o (IF CastlingConsidered(b, piece, for_attack)
            THEN KingsideCastle(b, position, piece.color)
                    \o QueensideCastle(b, position, piece.color)
            ELSE <<>>)

\* piece.get_possible_moves(board, position, for_attack), dispatched on the
\* class of the piece standing on `position`.
get_possible_moves(b, position, for_attack) ==
    LET piece == get_piece(b, position)
    IN  CASE piece.piece_type = KING   -> KingMoves(b, position, piece, for_attack)
          [] piece.piece_type = QUEEN  -> SlidingMoves(b, position, piece.color, KingDirections)
          [] piece.piece_type = ROOK   -> SlidingMoves(b, position, piece.color, RookDirections)
          [] piece.piece_type = BISHOP -> SlidingMoves(b, position, piece.color, BishopDirections)
          [] piece.piece_type = KNIGHT -> StepMoves(b, position, piece.color, KnightOffsets)
          [] piece.piece_type = PAWN   -> PawnMoves(b, position, piece.color)
          [] OTHER -> <<>>

\* Board.is_position_under_attack
EndsOn(moves, position) ==
    \E i \in 1 .. Len(moves) : moves[i].end = position

is_position_under_attack(b, position, color) ==
    \E sq \in Squares :
        /\ b.board[sq] # None
        /\ b.board[sq].color # color
        /\ EndsOn(get_possible_moves(b, sq, TRUE), position)

\* The king search of Board.is_in_check: the first king of `color` in
\* row-major order, NoSquare when there is none.
IsKing(b, sq, color) ==
    b.board[sq].color = color /\ b.board[sq].piece_type = KING

KingPosition(b, color) ==
    IF \E sq \in Squares : IsKing(b, sq, color)
    THEN CHOOSE k \in Squares :
            /\ IsKing(b, k, color)
            /\ \A o \in Squares : IsKing(b, o, color) => Idx(k) <= Idx(o)
    ELSE NoSquare

\* Lines 446-448.
CheckAt(b, king_position, color) ==
    IF king_position # NoSquare
    THEN is_position_under_attack(b, king_position, color)
    ELSE FALSE

\* Board.is_in_check
is_in_check(b, color) == CheckAt(b, KingPosition(b, color), color)

\* ---- Board ----
\* A board value: the fields of a Board object.
BoardOf(grid, player, state, history, target) ==
    [board |-> grid, current_player |-> player, game_state |-> state,
     move_history |-> history, en_passant_target |-> target]

\* Board.setup_board
BackRowOrder == <<ROOK, KNIGHT, BISHOP, QUEEN, KING, BISHOP, KNIGHT, ROOK>>

SetupGrid ==
    [sq \in Squares |->
        CASE sq[1] = 1 -> Piece(BLACK, PAWN)
          [] sq[1] = 6 -> Piece(WHITE, PAWN)
          [] sq[1] = 0 -> Piece(BLACK, BackRowOrder[sq[2] + 1])
          [] sq[1] = 7 -> Piece(WHITE, BackRowOrder[sq[2] + 1])
          [] OTHER -> None]

\* Board.__init__(setup=True)
NewBoard == BoardOf(SetupGrid, WHITE, ACTIVE, <<>>, NoSquare)

\* Board.copy: the grid is deep-copied (records are values), the history
\* is a new empty list.
copy(b) ==
    BoardOf(b.board, b.current_player, b.game_state, <<>>, b.en_passant_target)

\* ---- Board.make_move, statement by statement ----
\* Mutant of Rejected: the turn is not checked.
RejectedIfEmpty(b, move) == get_piece(b, move.start) = None

\* Line 363: the only validation make_move performs.
Rejected(b, move) ==
    LET piece == get_piece(b, move.start)
    IN  piece = None \/ piece.color # b.current_player

\* Lines 367-379: the rook of a castle move.  `rook` is whatever stands on
\* the corner square; rook.has_moved = True raises AttributeError when the
\* corner is empty, after the two cell assignments were made.
CastleRookFrom(move) ==
    IF move.end[2] - move.start[2] = 2 THEN <<move.start[1], 7>>
    ELSE IF move.end[2] - move.start[2] = -2 THEN <<move.start[1], 0>>
    ELSE NoSquare

CastleRookTo(move) ==
    IF move.end[2] - move.start[2] = 2 THEN <<move.start[1], 5>>
    ELSE <<move.start[1], 3>>

CastleRaises(b, move) ==
    /\ move.is_castle
    /\ CastleRookFrom(move) # NoSquare
    /\ get_piece(b, CastleRookFrom(move)) = None

\* Mutant of AfterCastle: the rook is relocated and not marked.
AfterCastleRookUnmarked(grid, move) ==
    IF move.is_castle /\ CastleRookFrom(move) # NoSquare
    THEN [grid EXCEPT ![CastleRookTo(move)] = grid[CastleRookFrom(move)],
                      ![CastleRookFrom(move)] = None]
    ELSE grid

AfterCastle(grid, move) ==
    IF move.is_castle /\ CastleRookFrom(move) # NoSquare
    THEN LET rook == grid[CastleRookFrom(move)]
         IN  [grid EXCEPT ![CastleRookTo(move)] =
                              IF rook = None THEN None
                              ELSE [rook EXCEPT !.has_moved = TRUE],
                          ![CastleRookFrom(move)] = None]
    ELSE grid

\* Lines 381-383: the en passant capture.
EnPassantVictim(move) == <<move.start[1], move.end[2]>>

AfterEnPassant(grid, move) ==
    IF move.is_en_passant THEN [grid EXCEPT ![EnPassantVictim(move)] = None]
    ELSE grid

\* Lines 388-402: what ends up on the destination square.  A promotion
\* constructs a new piece (Piece.__init__, has_moved = False); the
\* statement piece.has_moved = True of line 402 acts on the moved object,
\* which is on the board only when it was not replaced.
PromotedPiece(color, kind) == Piece(color, kind)

\* Mutant of MovedPiece: the moved piece is not marked.
MovedPieceUnmarked(piece) == piece

MovedPiece(piece) == [piece EXCEPT !.has_moved = TRUE]

AfterPlace(grid, move, piece) ==
    IF move.is_promotion /\ move.promotion_piece # NoType
    THEN IF move.promotion_piece \in ToSet(PromotionPieces)
         THEN [grid EXCEPT ![move.end] = PromotedPiece(piece.color, move.promotion_piece)]
         ELSE grid
    ELSE [grid EXCEPT ![move.end] = MovedPiece(piece)]

\* Mutant of NewEnPassantTarget: any pawn advance sets the target.
NewEnPassantTargetAnyAdvance(move, piece) ==
    IF piece.piece_type = PAWN /\ Abs(move.start[1] - move.end[1]) >= 1
    THEN <<move.start[1] + (IF piece.color = BLACK THEN 1 ELSE -1), move.start[2]>>
    ELSE NoSquare

\* Lines 404-407.
NewEnPassantTarget(move, piece) ==
    IF piece.piece_type = PAWN /\ Abs(move.start[1] - move.end[1]) = 2
    THEN <<move.start[1] + (IF piece.color = BLACK THEN 1 ELSE -1), move.start[2]>>
    ELSE NoSquare

\* Lines 366-413: the mutation of an accepted move, before update_game_state.
Applied(b, move) ==
    LET piece == get_piece(b, move.start)
        g1 == AfterCastle(b.board, move)
        g2 == AfterEnPassant(g1, move)
        g3 == [g2 EXCEPT ![move.start] = None]
        g4 == AfterPlace(g3, move, piece)
    IN  BoardOf(g4, Other(b.current_player), b.game_state,
                Append(b.move_history, move), NewEnPassantTarget(move, piece))

RECURSIVE make_move(_, _, _)

\* Board.has_no_valid_moves
\* Lines 477-482: no move of `moves` gets the player to move out of check.
NoneEscapes(b, moves) ==
    \A i \in 1 .. Len(moves) :
        is_in_check(make_move(copy(b), moves[i], FALSE).b, b.current_player)

has_no_valid_moves(b) ==
    \A sq \in Squares :
        (b.board[sq] # None /\ b.board[sq].color = b.current_player)
        => NoneEscapes(b, get_possible_moves(b, sq, FALSE))

\* Board.update_game_state (is_checkmate and is_stalemate are both
\* has_no_valid_moves).
\* Mutant of GameStateOf: every check is called a checkmate.
GameStateOfHastyMate(in_check, no_moves) ==
    IF in_check THEN CHECKMATE
    ELSE (IF no_moves THEN STALEMATE ELSE ACTIVE)

\* Mutant of GameStateOf: the state is never escalated.
GameStateOfNoEscalation(in_check, no_moves) ==
    IF in_check THEN CHECK ELSE ACTIVE

GameStateOf(in_check, no_moves) ==
    IF in_check
    THEN (IF no_moves THEN CHECKMATE ELSE CHECK)
    ELSE (IF no_moves THEN STALEMATE ELSE ACTIVE)

update_game_state(b) ==
    [b EXCEPT !.game_state =
        GameStateOf(is_in_check(b, b.current_player), has_no_valid_moves(b))]

\* Mutant of make_move: the turn passes before the move is validated.
make_move_passing_turn(b, move, update_state) ==
    IF Rejected(b, move)
    THEN [b |-> [b EXCEPT !.current_player = Other(@)], result |-> "False"]
    ELSE IF CastleRaises(b, move)
    THEN [b |-> [b EXCEPT !.board = AfterCastle(b.board, move)],
          result |-> "AttributeError"]
    ELSE [b |-> IF update_state THEN update_game_state(Applied(b, move))
                ELSE Applied(b, move),
          result |-> "True"]

\* Board.make_move: the board afterwards and what the call returned
\* ("True", "False", or "AttributeError" when it raised).
make_move(b, move, update_state) ==
    IF Rejected(b, move) THEN [b |-> b, result |-> "False"]
    ELSE IF CastleRaises(b, move)
    THEN [b |-> [b EXCEPT !.board = AfterCastle(b.board, move)],
          result |-> "AttributeError"]
    ELSE [b |-> IF update_state THEN update_game_state(Applied(b, move))
                ELSE Applied(b, move),
          result |-> "True"]

\* Mutant of KeepsKingSafe: every candidate passes.
KeepsKingSafeUnfiltered(b, move) == TRUE

\* The legality filter of Board.get_valid_moves, lines 503-508.
KeepsKingSafe(b, move) ==
    ~is_in_check(make_move(copy(b), move, FALSE).b, b.current_player)

\* Mutant of get_valid_moves: the turn is not checked.
get_valid_moves_any_turn(b, position) ==
    LET piece == get_piece(b, position)
    IN  IF piece = None THEN <<>>
        ELSE LET keep(m) == KeepsKingSafe(b, m)
             IN  SelectSeq(get_possible_moves(b, position, FALSE), keep)

\* Mutant of get_valid_moves: the candidates are returned as generated.
get_valid_moves_unchecked(b, position) ==
    IF get_piece(b, position) = None
       \/ get_piece(b, position).color # b.current_player
    THEN <<>>
    ELSE get_possible_moves(b, position, FALSE)

\* Board.get_valid_moves
get_valid_moves(b, position) ==
    LET piece == get_piece(b, position)
    IN  IF piece = None \/ piece.color # b.current_player THEN <<>>
        ELSE LET keep(m) == KeepsKingSafe(b, m)
             IN  SelectSeq(get_possible_moves(b, position, FALSE), keep)

\* ---- objects and references ----
\* Board.copy and a make_move on the copy, with the Python objects told
\* apart.  There are two Board objects, the live one and the one copy()
\* returns; a cell of a grid holds a reference to a piece object, a board's
\* move_history a reference to a list object.  A piece object is named by
\* the board it was created for and the square it stood on then; "new" names
\* the piece a promotion constructs.
BoardObjects == {"live", "clone"}

PieceRefs == {"live", "clone", "new"} \X Squares

NoRef == <<"None", NoSquare>>

\* The objects of a program whose live board is b; the slots of the clone
\* are filled by copy_objects.
ObjectsOf(b) ==
    [cells |-> [o \in BoardObjects |->
                  [sq \in Squares |->
                      IF o = "live" /\ b.board[sq] # None THEN <<"live", sq>>
                      ELSE NoRef]],
     piece |-> [r \in PieceRefs |-> IF r[1] = "live" THEN b.board[r[2]] ELSE None],
     current_player |-> [o \in BoardObjects |-> b.current_player],
     game_state |-> [o \in BoardObjects |-> b.game_state],
     en_passant_target |-> [o \in BoardObjects |-> b.en_passant_target],
     move_history |-> [o \in BoardObjects |-> o],
     list |-> [l \in BoardObjects |-> IF l = "live" THEN b.move_history ELSE <<>>]]

\* The Board value an object stands for.
ViewOf(h, o) ==
    BoardOf([sq \in Squares |->
                IF h.cells[o][sq] = NoRef THEN None ELSE h.piece[h.cells[o][sq]]],
            h.current_player[o], h.game_state[o],
            h.list[h.move_history[o]], h.en_passant_target[o])

\* Piece.__deepcopy__: a new object with the fields of the original.
DeepCopyRef(ref) == IF ref = NoRef THEN NoRef ELSE <<"clone", ref[2]>>

\* Mutant of copy_objects: the clone's grid refers to the live pieces.
copy_objects_sharing_pieces(h) ==
    [h EXCEPT !.cells["clone"] = h.cells["live"],
              !.current_player["clone"] = h.current_player["live"],
              !.game_state["clone"] = h.game_state["live"],
              !.en_passant_target["clone"] = h.en_passant_target["live"],
              !.move_history["clone"] = "clone",
              !.list["clone"] = <<>>]

\* Mutant of copy_objects: the clone's move_history is the live list.
copy_objects_sharing_history(h) ==
    [h EXCEPT !.cells["clone"] =
                  [sq \in Squares |-> DeepCopyRef(h.cells["live"][sq])],
              !.piece = [r \in PieceRefs |->
                            IF r[1] = "clone" THEN h.piece[<<"live", r[2]>>]
                            ELSE h.piece[r]],
              !.current_player["clone"] = h.current_player["live"],
              !.game_state["clone"] = h.game_state["live"],
              !.en_passant_target["clone"] = h.en_passant_target["live"],
              !.move_history["clone"] = h.move_history["live"]]

\* Board.copy of the live board: copy.deepcopy of the grid makes a new
\* piece object for every piece, move_history is a new empty list.
copy_objects(h) ==
    [h EXCEPT !.cells["clone"] =
                  [sq \in Squares |-> DeepCopyRef(h.cells["live"][sq])],
              !.piece = [r \in PieceRefs |->
                            IF r[1] = "clone" THEN h.piece[<<"live", r[2]>>]
                            ELSE h.piece[r]],
              !.current_player["clone"] = h.current_player["live"],
              !.game_state["clone"] = h.game_state["live"],
              !.en_passant_target["clone"] = h.en_passant_target["live"],
              !.move_history["clone"] = "clone",
              !.list["clone"] = <<>>]

\* Lines 366-379 on board object o: the corner's reference moves beside the
\* king and the object it refers to is marked.
CastleObjects(h, o, move) ==
    IF move.is_castle /\ CastleRookFrom(move) # NoSquare
    THEN LET rook == h.cells[o][CastleRookFrom(move)]
             moved == [h EXCEPT !.cells[o][CastleRookTo(move)] = rook,
                                !.cells[o][CastleRookFrom(move)] = NoRef]
         IN  IF rook = NoRef THEN moved
             ELSE [moved EXCEPT !.piece[rook].has_moved = TRUE]
    ELSE h

\* Lines 381-383.
EnPassantObjects(h, o, move) ==
    IF move.is_en_passant
    THEN [h EXCEPT !.cells[o][EnPassantVictim(move)] = NoRef]
    ELSE h

\* Lines 385-402: the start cell is cleared, the destination cell refers to
\* the moved piece or to a newly constructed one, and the moved piece object
\* is marked.
PlaceObjects(h, o, move, ref) ==
    LET lifted == [h EXCEPT !.cells[o][move.start] = NoRef]
        placed ==
            IF move.is_promotion /\ move.promotion_piece # NoType
            THEN IF move.promotion_piece \in ToSet(PromotionPieces)
                 THEN [lifted EXCEPT
                          !.cells[o][move.end] = <<"new", move.end>>,
                          !.piece[<<"new", move.end>>] =
                              PromotedPiece(h.piece[ref].color, move.promotion_piece)]
                 ELSE lifted
            ELSE [lifted EXCEPT !.cells[o][move.end] = ref]
    IN  [placed EXCEPT !.piece[ref].has_moved = TRUE]

\* Lines 404-413.
BookkeepObjects(h, o, move, piece) ==
    [h EXCEPT !.en_passant_target[o] = NewEnPassantTarget(move, piece),
              !.list[h.move_history[o]] = Append(@, move),
              !.current_player[o] = Other(@)]

\* Board.make_move(move, update_state=False) called on board object o.
make_move_objects(h, o, move) ==
    LET ref == IF InBounds(move.start[1], move.start[2])
               THEN h.cells[o][move.start] ELSE NoRef
    IN  IF ref = NoRef \/ h.piece[ref].color # h.current_player[o] THEN h
        ELSE IF move.is_castle /\ CastleRookFrom(move) # NoSquare
                /\ h.cells[o][CastleRookFrom(move)] = NoRef
        THEN CastleObjects(h, o, move)
        ELSE BookkeepObjects(
                 PlaceObjects(EnPassantObjects(CastleObjects(h, o, move), o, move),
                              o, move, ref),
                 o, move, h.piece[ref])

\* One iteration of the loops of get_valid_moves and has_no_valid_moves:
\* temp_board = self.copy(); temp_board.make_move(move, update_state=False).
Simulate(h, move) == make_move_objects(copy_objects(h), "clone", move)

\* ---- positions of play ----
\* The square of file 1..8 (a..h) and rank 1..8.
At(file, rank) == <<BOARD_SIZE - rank, file - 1>>

\* A well-behaved caller: the move of get_valid_moves(from) that ends on
\* `to` (the first one, as ChessGame.handle_mouse_click picks it), applied
\* with make_move.  Defined only when there is such a move.
FirstTo(moves, to) ==
    moves[CHOOSE i \in 1 .. Len(moves) :
            /\ moves[i].end = to
            /\ \A j \in 1 .. (i - 1) : moves[j].end # to]

PlayOne(b, step) ==
    make_move(b, FirstTo(get_valid_moves(b, step[1]), step[2]), TRUE).b

RECURSIVE Play(_, _)
Play(b, line) ==
    IF line = <<>> THEN b
    ELSE CHOOSE end \in {Play(next, Tail(line)) : next \in {PlayOne(b, Head(line))}} : TRUE

\* 1. f3 e5 2. g4: Black mates with Qh4.
FoolsMateLine ==
    << <<At(6, 2), At(6, 3)>>, <<At(5, 7), At(5, 5)>>,
       <<At(7, 2), At(7, 4)>> >>

\* 1. e4 a6 2. e5: Black can advance d7-d5 or f7-f5 beside the e5 pawn.
AdvanceLine ==
    << <<At(5, 2), At(5, 4)>>, <<At(1, 7), At(1, 6)>>,
       <<At(5, 4), At(5, 5)>> >>

\* 1. a3 d5 2. a4 d4 3. h3 d3: a black pawn on d3 beside the squares c3, e3.
DeepPawnLine ==
    << <<At(1, 2), At(1, 3)>>, <<At(4, 7), At(4, 5)>>,
       <<At(1, 3), At(1, 4)>>, <<At(4, 5), At(4, 4)>>,
       <<At(8, 2), At(8, 3)>>, <<At(4, 4), At(4, 3)>> >>

\* 1. a4 Nc6 2. a5 Nf6 3. a6 e6 4. axb7 Be7: a white pawn on b7.
PromotionLine ==
    << <<At(1, 2), At(1, 4)>>, <<At(2, 8), At(3, 6)>>,
       <<At(1, 4), At(1, 5)>>, <<At(7, 8), At(6, 6)>>,
       <<At(1, 5), At(1, 6)>>, <<At(5, 7), At(5, 6)>>,
       <<At(1, 6), At(2, 7)>>, <<At(6, 8), At(5, 7)>> >>

\* 1. e4 d5 2. exd5 e5 3. Nf3 e4 4. Bc4 e3 5. a3 e2: a black pawn on e2,
\* White king and king rook unmoved, f1 and g1 empty.
CastleLine ==
    << <<At(5, 2), At(5, 4)>>, <<At(4, 7), At(4, 5)>>,
       <<At(5, 4), At(4, 5)>>, <<At(5, 7), At(5, 5)>>,
       <<At(7, 1), At(6, 3)>>, <<At(5, 5), At(5, 4)>>,
       <<At(6, 1), At(3, 4)>>, <<At(5, 4), At(5, 3)>>,
       <<At(1, 2), At(1, 3)>>, <<At(5, 3), At(5, 2)>> >>

\* 1. e3 a5 2. Qh5 Ra6 3. Qxa5 h5 4. h4 Rah6 5. Qxc7 f6 6. Qxd7+ Kf7
\* 7. Qxb7 Qd3 8. Qxb8 Qh7 9. Qxc8 Kg6: White stalemates with Qe6.
StalemateLine ==
    << <<At(5, 2), At(5, 3)>>, <<At(1, 7), At(1, 5)>>,
       <<At(4, 1), At(8, 5)>>, <<At(1, 8), At(1, 6)>>,
       <<At(8, 5), At(1, 5)>>, <<At(8, 7), At(8, 5)>>,
       <<At(8, 2), At(8, 4)>>, <<At(1, 6), At(8, 6)>>,
       <<At(1, 5), At(3, 7)>>, <<At(6, 7), At(6, 6)>>,
       <<At(3, 7), At(4, 7)>>, <<At(5, 8), At(6, 7)>>,
       <<At(4, 7), At(2, 7)>>, <<At(4, 8), At(4, 3)>>,
       <<At(2, 7), At(2, 8)>>, <<At(4, 3), At(8, 7)>>,
       <<At(2, 8), At(3, 8)>>, <<At(6, 7), At(7, 6)>> >>

\* 1. d4 d5 2. Nc3 Nc6 3. Bf4 Bf5 4. Qd2 Qd7 5. a3: Black can castle
\* queenside.
QueensideLine ==
    << <<At(4, 2), At(4, 4)>>, <<At(4, 7), At(4, 5)>>,
       <<At(2, 1), At(3, 3)>>, <<At(2, 8), At(3, 6)>>,
       <<At(3, 1), At(6, 4)>>, <<At(3, 8), At(6, 5)>>,
       <<At(4, 1), At(4, 2)>>, <<At(4, 8), At(4, 7)>>,
       <<At(1, 2), At(1, 3)>> >>

\* 1. e4 e5 2. Nf3 Nf6 3. Bc4 Bc5 4. d3 d6 5. Be3 Be6 6. Nc3 Nc6 7. Qd2 Qd7:
\* both colors can castle on both sides.
BothSidesLine ==
    << <<At(5, 2), At(5, 4)>>, <<At(5, 7), At(5, 5)>>,
       <<At(7, 1), At(6, 3)>>, <<At(7, 8), At(6, 6)>>,
       <<At(6, 1), At(3, 4)>>, <<At(6, 8), At(3, 5)>>,
       <<At(4, 2), At(4, 3)>>, <<At(4, 7), At(4, 6)>>,
       <<At(3, 1), At(5, 3)>>, <<At(3, 8), At(5, 6)>>,
       <<At(2, 1), At(3, 3)>>, <<At(2, 8), At(3, 6)>>,
       <<At(4, 1), At(4, 2)>>, <<At(4, 8), At(4, 7)>> >>

\* 1. e4 e5 2. Nf3 Nc6 3. Bc4 Bc5 4. Ke2 Nf6 5. Ke1 d6: the white king is
\* back on e1, f1 and g1 are empty, the rook on h1 never moved.
KingWalkLine ==
    << <<At(5, 2), At(5, 4)>>, <<At(5, 7), At(5, 5)>>,
       <<At(7, 1), At(6, 3)>>, <<At(2, 8), At(3, 6)>>,
       <<At(6, 1), At(3, 4)>>, <<At(6, 8), At(3, 5)>>,
       <<At(5, 1), At(5, 2)>>, <<At(7, 8), At(6, 6)>>,
       <<At(5, 2), At(5, 1)>>, <<At(4, 7), At(4, 6)>> >>

\* 1. e4 e5 2. Nf3 Nc6 3. Bc4 Bc5 4. Rg1 Nf6 5. Rh1 d6: the white rook is
\* back on h1, f1 and g1 are empty, the king never moved.
RookWalkLine ==
    << <<At(5, 2), At(5, 4)>>, <<At(5, 7), At(5, 5)>>,
       <<At(7, 1), At(6, 3)>>, <<At(2, 8), At(3, 6)>>,
       <<At(6, 1), At(3, 4)>>, <<At(6, 8), At(3, 5)>>,
       <<At(8, 1), At(7, 1)>>, <<At(7, 8), At(6, 6)>>,
       <<At(7, 1), At(8, 1)>>, <<At(4, 7), At(4, 6)>> >>

\* The boards the runs about castling start from.
CastleStartBoards ==
    {Play(NewBoard, line) :
        line \in {QueensideLine, BothSidesLine, KingWalkLine, RookWalkLine}}

\* The boards the runs start from: the new board and boards that legal play
\* reaches from it.
StartBoards ==
    {NewBoard} \cup
    {Play(NewBoard, line) :
        line \in {FoolsMateLine, AdvanceLine, DeepPawnLine, PromotionLine,
                  CastleLine, StalemateLine}}

\* The boards the deeper runs start from.
DeepStartBoards == {Play(NewBoard, CastleLine)}

\* The boards the runs about check, checkmate and stalemate start from.
MateStartBoards ==
    {NewBoard} \cup
    {Play(NewBoard, line) : line \in {FoolsMateLine, AdvanceLine, StalemateLine}}

\* The boards the runs about the end of the game start from: one move
\* before a checkmate and one move before a stalemate.
EndStartBoards ==
    {Play(NewBoard, line) : line \in {FoolsMateLine, StalemateLine}}

\* ---- the state machine ----
\* The number of make_move calls of a run, and of a deeper run.
MaxCalls == 1
MaxDeepCalls == 2

\* The number of mouse clicks of a run of the game window.
MaxClicks == 4

\* The fields of the live Board, what the last make_move call was given and
\* returned, and the fields of ChessGame with the position of the last click.
VARIABLES board, current_player, game_state, move_history, en_passant_target,
          last_move, last_result, calls,
          selected_pos, valid_moves, is_promotion_menu_active, promotion_move,
          last_click, clicks,
          position, possible_moves

\* The argument and the result of the last get_possible_moves call of a
\* caller that asks a piece for its candidates.
asked == <<position, possible_moves>>

game == <<selected_pos, valid_moves, is_promotion_menu_active, promotion_move,
          last_click, clicks>>

vars == <<board, current_player, game_state, move_history, en_passant_target,
          last_move, last_result, calls, game, asked>>

\* The live Board object.
Live == BoardOf(board, current_player, game_state, move_history, en_passant_target)

NoMove == Move(NoSquare, NoSquare, FALSE, FALSE, FALSE, NoType)

StartFrom(boards) ==
    /\ \E b \in boards :
        /\ board = b.board
        /\ current_player = b.current_player
        /\ game_state = b.game_state
        /\ move_history = b.move_history
        /\ en_passant_target = b.en_passant_target
    /\ last_move = NoMove
    /\ last_result = "None"
    /\ calls = 0
    /\ selected_pos = NoSquare
    /\ valid_moves = <<>>
    /\ is_promotion_menu_active = FALSE
    /\ promotion_move = NoMove
    /\ last_click = NoSquare
    /\ clicks = 0
    /\ position = NoSquare
    /\ possible_moves = <<>>

Init == StartFrom(StartBoards)

InitDeep == StartFrom(DeepStartBoards)

InitMate == StartFrom(MateStartBoards)

InitEnd == StartFrom(EndStartBoards)

InitCastle == StartFrom(CastleStartBoards)

\* One call Board.make_move(move) on the live board; last_move and
\* last_result record the argument and what the call returned.
Returned(r) ==
    /\ board' = r.b.board
    /\ current_player' = r.b.current_player
    /\ game_state' = r.b.game_state
    /\ move_history' = r.b.move_history
    /\ en_passant_target' = r.b.en_passant_target
    /\ last_result' = r.result

MakeMoveCall(move) ==
    /\ Returned(make_move(Live, move, TRUE))
    /\ last_move' = move
    /\ calls' = calls + 1

\* The caller submits a move drawn from get_valid_moves of a square.
PlayLegal ==
    \E sq \in Squares :
        \E m \in ToSet(get_valid_moves(Live, sq)) : MakeMoveCall(m)

\* Moves a caller can construct and submit without asking get_valid_moves:
\* from an empty square, from a square of either color, overlong, and with
\* the special-move flags set.
ProbeMoves ==
    { PlainMove(At(5, 4), At(5, 5)),
      PlainMove(At(5, 7), At(5, 5)),
      PlainMove(At(5, 2), At(5, 5)),
      PlainMove(At(5, 2), At(5, 8)),
      PlainMove(At(5, 1), At(6, 1)),
      Move(At(5, 1), At(7, 1), TRUE, FALSE, FALSE, NoType),
      Move(At(4, 5), At(6, 5), TRUE, FALSE, FALSE, NoType),
      Move(At(5, 2), At(6, 3), FALSE, FALSE, TRUE, NoType),
      Move(At(5, 2), At(5, 4), FALSE, TRUE, FALSE, QUEEN),
      Move(At(5, 2), At(5, 3), FALSE, TRUE, FALSE, KING),
      Move(At(5, 7), At(5, 6), FALSE, TRUE, FALSE, NoType) }

\* Any caller: Board.make_move is public and takes any Move.
Submit == \E m \in ProbeMoves : MakeMoveCall(m)

\* A caller that draws its move from get_valid_moves.
LegalCall == calls < MaxCalls /\ PlayLegal /\ UNCHANGED <<game, asked>>

\* A caller that submits whatever it likes.
AnyCall == calls < MaxCalls /\ Submit /\ UNCHANGED <<game, asked>>

\* A legal call of a deeper run.
DeepCall == calls < MaxDeepCalls /\ PlayLegal /\ UNCHANGED <<game, asked>>

Next == LegalCall

Spec == Init /\ [][Next]_vars

NextAny == LegalCall \/ AnyCall

SpecAny == Init /\ [][NextAny]_vars

SpecMate == InitMate /\ [][Next]_vars

NextDeep == DeepCall

SpecDeep == InitDeep /\ [][NextDeep]_vars

SpecEnd == InitEnd /\ [][NextDeep]_vars

SpecCastle == InitCastle /\ [][Next]_vars

\* ---- the game window ----
\* The geometry of the promotion menu (draw_promotion_menu and
\* handle_promotion_click compute the same four values).
menu_width == SQUARE_SIZE * 4
menu_height == SQUARE_SIZE
menu_x == (WINDOW_SIZE - menu_width) \div 2
menu_y == (WINDOW_SIZE - menu_height) \div 2

\* The hit test of handle_promotion_click: both edges are included.
InMenu(pos) ==
    /\ menu_x <= pos[1] /\ pos[1] <= menu_x + menu_width
    /\ menu_y <= pos[2] /\ pos[2] <= menu_y + menu_height

piece_index(pos) == (pos[1] - menu_x) \div SQUARE_SIZE

\* Mutant of ChosenKind: the kind the candidate was generated with is kept.
ChosenKindKept(pos) == promotion_move.promotion_piece

\* promotion_pieces[piece_index]
ChosenKind(pos) == PromotionPieces[piece_index(pos) + 1]

\* The square of a click.
ClickedSquare(pos) == <<pos[2] \div SQUARE_SIZE, pos[1] \div SQUARE_SIZE>>

\* Mutant of Unselect: the selection and its moves are kept.
UnselectNothing == UNCHANGED <<selected_pos, valid_moves>>

Unselect == selected_pos' = NoSquare /\ valid_moves' = <<>>

Select(sq) == selected_pos' = sq /\ valid_moves' = get_valid_moves(Live, sq)

OwnPieceOn(sq) ==
    get_piece(Live, sq) # None /\ get_piece(Live, sq).color = current_player

BoardKept ==
    UNCHANGED <<board, current_player, game_state, move_history,
                en_passant_target, last_move, last_result, calls>>

\* ChessGame.handle_promotion_click
HandlePromotionClick(pos) ==
    IF ~InMenu(pos)
    THEN /\ is_promotion_menu_active' = FALSE
         /\ BoardKept
         /\ UNCHANGED <<selected_pos, valid_moves, promotion_move>>
    ELSE IF 0 <= piece_index(pos) /\ piece_index(pos) < Len(PromotionPieces)
    THEN /\ promotion_move' = [promotion_move EXCEPT !.promotion_piece = ChosenKind(pos)]
         /\ MakeMoveCall([promotion_move EXCEPT !.promotion_piece = ChosenKind(pos)])
         /\ is_promotion_menu_active' = FALSE
         /\ Unselect
    ELSE /\ BoardKept
         /\ UNCHANGED <<selected_pos, valid_moves, is_promotion_menu_active,
                        promotion_move>>

\* The loop of lines 585-594 when its first move ending on the clicked
\* square is `move`.
ClickOnMove(move) ==
    IF move.is_promotion
    THEN /\ promotion_move' = move
         /\ is_promotion_menu_active' = TRUE
         /\ BoardKept
         /\ UNCHANGED <<selected_pos, valid_moves>>
    ELSE /\ MakeMoveCall(move)
         /\ Unselect
         /\ UNCHANGED <<is_promotion_menu_active, promotion_move>>

\* Lines 599-609: a click that made no move.
ClickOnSquare(sq) ==
    /\ IF OwnPieceOn(sq) THEN Select(sq)
       ELSE IF selected_pos # NoSquare THEN Unselect
       ELSE UNCHANGED <<selected_pos, valid_moves>>
    /\ BoardKept
    /\ UNCHANGED <<is_promotion_menu_active, promotion_move>>

\* ChessGame.handle_mouse_click
HandleMouseClick(pos) ==
    /\ last_click' = pos
    /\ clicks' = clicks + 1
    /\ IF is_promotion_menu_active THEN HandlePromotionClick(pos)
       ELSE IF selected_pos # NoSquare /\ EndsOn(valid_moves, ClickedSquare(pos))
       THEN ClickOnMove(FirstTo(valid_moves, ClickedSquare(pos)))
       ELSE ClickOnSquare(ClickedSquare(pos))

\* The clicks of a run: the centres of squares of the three left files and
\* of the four menu cells, and the pixels at the edges of the menu.
ClickXs == {40, 120, 159, 160, 200, 280, 360, 440, 479, 480, 481}
ClickYs == {40, 120, 279, 280, 320, 360, 361}

Click ==
    /\ clicks < MaxClicks
    /\ \E pos \in ClickXs \X ClickYs : HandleMouseClick(pos)
    /\ UNCHANGED asked

\* The window shows a board with a white pawn one step from promotion, or
\* a board on which Black is to move.
GameStartBoards == {Play(NewBoard, PromotionLine), Play(NewBoard, AdvanceLine)}

InitGame == StartFrom(GameStartBoards)

NextGame == Click

SpecGame == InitGame /\ [][NextGame]_vars

\* ---- candidate generation on its own ----
\* Board(setup=False): an empty grid, White to move.
EmptyBoard == BoardOf([sq \in Squares |-> None], WHITE, ACTIVE, <<>>, NoSquare)

\* board.board[row][col] = piece
Put(b, sq, piece) == [b EXCEPT !.board[sq] = piece]

\* Boards with a knight and nothing else, and boards with a knight in the
\* middle or in the corner and one pawn of either color on a square it
\* reaches.
KnightBoards ==
    {Put(EmptyBoard, sq, Piece(c, KNIGHT)) : sq \in Squares, c \in PieceColor}
    \cup
    {Put(Put(EmptyBoard, <<4, 4>>, Piece(WHITE, KNIGHT)), sq, Piece(c, PAWN)) :
        sq \in {<<2, 3>>, <<5, 6>>, <<3, 3>>}, c \in PieceColor}
    \cup
    {Put(Put(EmptyBoard, <<0, 0>>, Piece(BLACK, KNIGHT)), sq, Piece(c, PAWN)) :
        sq \in {<<1, 2>>, <<2, 1>>}, c \in PieceColor}

\* Boards with a white queen, rook or bishop in a corner or in the middle,
\* alone or with one pawn of either color on a line it moves along.
SliderBoards ==
    {Put(EmptyBoard, sq, Piece(WHITE, kind)) :
        sq \in {<<0, 0>>, <<4, 4>>, <<7, 3>>}, kind \in {QUEEN, ROOK, BISHOP}}
    \cup
    {Put(Put(EmptyBoard, <<4, 4>>, Piece(WHITE, kind)), sq, Piece(c, PAWN)) :
        kind \in {QUEEN, ROOK, BISHOP},
        sq \in {<<4, 5>>, <<4, 0>>, <<1, 1>>, <<5, 5>>, <<0, 4>>},
        c \in PieceColor}

InitPieces == StartFrom(KnightBoards \cup SliderBoards \cup StartBoards)

\* A caller asks the piece on a square for its candidate moves.
GetPossibleMoves ==
    \E sq \in Squares :
        /\ board[sq] # None
        /\ position' = sq
        /\ possible_moves' = get_possible_moves(Live, sq, FALSE)
        /\ BoardKept
        /\ UNCHANGED game

NextPieces == GetPossibleMoves

SpecPieces == InitPieces /\ [][NextPieces]_vars

\* ---- properties ----
BoardUnchanged ==
    UNCHANGED <<board, current_player, game_state, move_history, en_passant_target>>

LastApplied == move_history[Len(move_history)]

\* The move m, read on the board after it, is a pawn's two-square advance.
IsDoubleAdvance(m) ==
    /\ board[m.end].piece_type = PAWN
    /\ m.start[2] = m.end[2]
    /\ Abs(m.start[1] - m.end[1]) = 2

KingCount(color) ==
    Cardinality({sq \in Squares : IsKing(Live, sq, color)})

OwnSquares == {sq \in Squares : board[sq].color = current_player}

\* C1: make_move returns False and changes nothing (grid, has_moved flags,
\* current_player, en_passant_target, move_history, game_state) whenever
\* the start square of the move is empty or holds a piece whose color is
\* not current_player.
C1_StartUnusable(move) ==
    \/ get_piece(Live, move.start) = None
    \/ get_piece(Live, move.start).color # current_player

C1_RejectedWithoutEffect ==
    [][C1_StartUnusable(last_move') => (last_result' = "False" /\ BoardUnchanged)]_vars

C1_Witness ==
    /\ last_result = "False"
    /\ get_piece(Live, last_move.start) # None
    /\ get_piece(Live, last_move.start).color # current_player

\* C2: make_move rejects, without mutating the board, every move that is
\* not a member of get_valid_moves of its start square.
C2_IsLegal(move) ==
    \E m \in ToSet(get_valid_moves(Live, move.start)) : m = move

C2_IllegalMoveRejected ==
    [][~C2_IsLegal(last_move') => (last_result' = "False" /\ BoardUnchanged)]_vars

\* C3: on every board reached from the initial setup by moves drawn from
\* get_valid_moves, each color has exactly one king.
C3_OneKingEach == KingCount(WHITE) = 1 /\ KingCount(BLACK) = 1

C3_Witness ==
    /\ last_result = "True"
    /\ is_in_check(Live, current_player)
    /\ C3_OneKingEach

\* C4: after make_move(m) of a move m of get_valid_moves the mover's king
\* is not in check, and every candidate of a piece of the player to move
\* that does not leave the mover's king in check is in get_valid_moves.
\* The candidate is applied without the closing update of game_state, which
\* is_in_check never reads.
C4_Listed(valid, m) == \E j \in 1 .. Len(valid) : valid[j] = m

C4_FilterExact(valid, candidates) ==
    \A i \in 1 .. Len(candidates) :
        C4_Listed(valid, candidates[i])
        <=> ~is_in_check(make_move(Live, candidates[i], FALSE).b, current_player)

C4_MoverNeverInCheck ==
    /\ last_result = "True" => ~is_in_check(Live, Other(current_player))
    /\ \A sq \in OwnSquares :
          C4_FilterExact(get_valid_moves(Live, sq), get_possible_moves(Live, sq, FALSE))

C4_SomeFiltered(valid, candidates) ==
    valid # <<>> /\ Len(valid) < Len(candidates)

C4_Witness ==
    /\ last_result = "True"
    /\ \E sq \in OwnSquares :
          C4_SomeFiltered(get_valid_moves(Live, sq), get_possible_moves(Live, sq, FALSE))

\* C5: after every successful make_move game_state classifies the position
\* of the player to move: Checkmate iff in check and get_valid_moves is
\* empty for each of their squares, Check iff in check with a legal move,
\* Stalemate iff not in check with no legal move, Active otherwise.
C5_NoLegalMove ==
    \A sq \in OwnSquares : get_valid_moves(Live, sq) = <<>>

C5_Classified(in_check, no_move) ==
    /\ game_state = CHECKMATE <=> (in_check /\ no_move)
    /\ game_state = CHECK     <=> (in_check /\ ~no_move)
    /\ game_state = STALEMATE <=> (~in_check /\ no_move)
    /\ game_state = ACTIVE    <=> (~in_check /\ ~no_move)

C5_GameStateExact ==
    last_result = "True"
        => C5_Classified(is_in_check(Live, current_player), C5_NoLegalMove)

C5_Witness == last_result = "True" /\ game_state = CHECKMATE

\* C6: the kingside castle is absent from get_valid_moves of the king's
\* square whenever a square between king and rook is occupied, the king or
\* the rook has moved, the king is in check, or a square the king
\* traverses (its destination included) is attacked by an enemy piece.
\* A pawn attacks the two squares diagonally ahead of it.
C6_PawnAttacks(sq, color) ==
    \E dc \in {-1, 1} :
        /\ get_piece(Live, <<sq[1] + (IF color = WHITE THEN -1 ELSE 1), sq[2] + dc>>).piece_type = PAWN
        /\ get_piece(Live, <<sq[1] + (IF color = WHITE THEN -1 ELSE 1), sq[2] + dc>>).color = Other(color)

C6_Attacked(sq, color) ==
    is_position_under_attack(Live, sq, color) \/ C6_PawnAttacks(sq, color)

C6_Barred(k) ==
    \/ get_piece(Live, <<k[1], k[2] + 1>>) # None
    \/ get_piece(Live, <<k[1], k[2] + 2>>) # None
    \/ board[k].has_moved
    \/ get_piece(Live, <<k[1], k[2] + 3>>).has_moved
    \/ is_in_check(Live, current_player)
    \/ C6_Attacked(<<k[1], k[2] + 1>>, current_player)
    \/ C6_Attacked(<<k[1], k[2] + 2>>, current_player)

C6_KingsideListed(valid) ==
    \E i \in 1 .. Len(valid) :
        valid[i].is_castle /\ valid[i].end[2] - valid[i].start[2] = 2

C6_AbsentAt(k) ==
    (k # NoSquare /\ C6_Barred(k)) => ~C6_KingsideListed(get_valid_moves(Live, k))

C6_CastleAbsentWhenBarred == C6_AbsentAt(KingPosition(Live, current_player))

\* C7: right after a pawn advanced two squares and landed beside an enemy
\* pawn on the same rank, that enemy pawn's candidates include an en
\* passant move whose destination is en_passant_target, and applying it
\* removes the pawn that just advanced.
C7_Captures(m, landed) ==
    /\ m.is_en_passant
    /\ m.end = en_passant_target
    /\ make_move(Live, m, TRUE).b.board[landed] = None

C7_Offered(candidates, landed) ==
    \E i \in 1 .. Len(candidates) : C7_Captures(candidates[i], landed)

C7_OfferedBeside(landed) ==
    \A dc \in {-1, 1} :
        (/\ get_piece(Live, <<landed[1], landed[2] + dc>>).piece_type = PAWN
         /\ get_piece(Live, <<landed[1], landed[2] + dc>>).color = current_player)
        => C7_Offered(get_possible_moves(Live, <<landed[1], landed[2] + dc>>, FALSE),
                      landed)

C7_EnPassantOffered ==
    (move_history # <<>> /\ IsDoubleAdvance(LastApplied))
        => C7_OfferedBeside(LastApplied.end)

\* C8: en_passant_target is the skipped square exactly when the most
\* recently applied move was a pawn's two-square advance, and null
\* otherwise: the next applied move, whichever piece moves, clears it.
C8_Skipped(m) == <<(m.start[1] + m.end[1]) \div 2, m.start[2]>>

C8_TargetOnlyAfterDoubleAdvance ==
    IF move_history # <<>> /\ IsDoubleAdvance(LastApplied)
    THEN en_passant_target = C8_Skipped(LastApplied)
    ELSE en_passant_target = NoSquare

C8_Witness ==
    /\ last_result = "True"
    /\ Len(move_history) >= 2
    /\ IsDoubleAdvance(move_history[Len(move_history) - 1])
    /\ en_passant_target = NoSquare

\* C9: applying a promotion move with kind K leaves the start square empty
\* and puts on the destination a piece of kind K, of the pawn's color,
\* with has_moved = true.
C9_PromotedPieceHasMoved ==
    (/\ last_result = "True"
     /\ last_move.is_promotion
     /\ last_move.promotion_piece \in ToSet(PromotionPieces))
    => /\ board[last_move.start] = None
       /\ board[last_move.end] =
            [color |-> Other(current_player),
             piece_type |-> last_move.promotion_piece,
             has_moved |-> TRUE]

\* C10: for a pawn one step from its last rank, every destination on the
\* last rank (straight ahead if empty, diagonal if enemy-occupied) has
\* exactly 4 candidates, one per kind Queen, Rook, Bishop, Knight, each a
\* promotion with its kind set, and no other candidate lands on the last
\* rank.
C10_Ahead(sq) == sq[1] + (IF board[sq].color = WHITE THEN -1 ELSE 1)

C10_Destinations(sq) ==
    {d \in Squares :
        /\ d[1] = C10_Ahead(sq)
        /\ \/ d[2] = sq[2] /\ board[d] = None
           \/ /\ Abs(d[2] - sq[2]) = 1
              /\ board[d] # None
              /\ board[d].color # board[sq].color}

C10_FourPerDestination(sq, candidates) ==
    /\ \A d \in C10_Destinations(sq) :
          /\ Cardinality({i \in 1 .. Len(candidates) : candidates[i].end = d}) = 4
          /\ \A kind \in {QUEEN, ROOK, BISHOP, KNIGHT} :
                \E i \in 1 .. Len(candidates) :
                    candidates[i] = Move(sq, d, FALSE, TRUE, FALSE, kind)
    /\ \A i \in 1 .. Len(candidates) :
          candidates[i].end[1] = C10_Ahead(sq)
            => /\ candidates[i].end \in C10_Destinations(sq)
               /\ candidates[i].is_promotion
               /\ candidates[i].promotion_piece \in {QUEEN, ROOK, BISHOP, KNIGHT}

C10_AboutToPromote ==
    {sq \in Squares :
        /\ board[sq].piece_type = PAWN
        /\ PawnLastRank(board[sq].color, C10_Ahead(sq))}

C10_PromotionCandidates ==
    \A sq \in C10_AboutToPromote :
        C10_FourPerDestination(sq, get_possible_moves(Live, sq, FALSE))

C10_Witness ==
    \E sq \in C10_AboutToPromote :
        /\ Cardinality(C10_Destinations(sq)) = 3
        /\ Len(get_possible_moves(Live, sq, FALSE)) = 12

\* The moves get_valid_moves and has_no_valid_moves try on clones in the
\* current position: the candidates of the pieces of the player to move.
TriedOnClones ==
    UNION {ToSet(get_possible_moves(Live, sq, FALSE)) : sq \in OwnSquares}

\* C11: a make_move applied to Board.copy(), as get_valid_moves and
\* has_no_valid_moves do for every candidate, leaves the live board's grid,
\* every live piece's has_moved flag, move_history, current_player and
\* en_passant_target unchanged; the clone then holds the board the
\* simulation is read from.
C11_LiveKept(h, after) ==
    /\ after.cells["live"] = h.cells["live"]
    /\ \A sq \in Squares : after.piece[<<"live", sq>>] = h.piece[<<"live", sq>>]
    /\ after.move_history["live"] = h.move_history["live"]
    /\ after.list[h.move_history["live"]] = h.list[h.move_history["live"]]
    /\ after.current_player["live"] = h.current_player["live"]
    /\ after.en_passant_target["live"] = h.en_passant_target["live"]
    /\ ViewOf(after, "live") = ViewOf(h, "live")

C11_FrameFor(h, moves) ==
    \A m \in moves :
        /\ C11_LiveKept(h, Simulate(h, m))
        /\ ViewOf(Simulate(h, m), "clone") = make_move(copy(Live), m, FALSE).b

C11_ClonesLeaveLiveBoard ==
    C11_FrameFor(ObjectsOf(Live), TriedOnClones \cup ProbeMoves)

C11_CloneMarked(h, after) ==
    \E sq \in Squares :
        /\ h.cells["live"][sq] # NoRef
        /\ ~h.piece[h.cells["live"][sq]].has_moved
        /\ after.cells["clone"][sq] = NoRef
        /\ \E r \in PieceRefs : r[1] = "clone" /\ r[2] = sq /\ after.piece[r].has_moved

C11_SomeCloneMarked(h, moves) ==
    \E m \in moves : C11_CloneMarked(h, Simulate(h, m))

C11_Witness ==
    last_result = "True" /\ C11_SomeCloneMarked(ObjectsOf(Live), TriedOnClones)

\* C12: move_history holds exactly the moves successfully applied to the
\* live board, in order: a successful make_move appends its move, a call
\* that does not succeed appends nothing, and in every position no move
\* tried on a clone is added to the live list.
C12_NoneFromClones(h, moves, history) ==
    \A m \in moves : Simulate(h, m).list[h.move_history["live"]] = history

C12_Step ==
    /\ last_result' = "True" => move_history' = Append(move_history, last_move')
    /\ last_result' # "True" => move_history' = move_history

C12_HistoryIsAppliedMoves ==
    /\ [][C12_Step]_vars
    /\ [](C12_NoneFromClones(ObjectsOf(Live), TriedOnClones, move_history))

C12_Witness ==
    /\ last_result = "True"
    /\ Len(move_history) > 1
    /\ LastApplied = last_move
    /\ TriedOnClones # {}

\* C13: in every reachable position get_valid_moves(square) is the empty
\* sequence for a square that is empty or holds a piece whose color is not
\* current_player.
C13_EmptyForOthers ==
    \A sq \in Squares \ OwnSquares : get_valid_moves(Live, sq) = <<>>

C13_Witness ==
    /\ last_result = "True"
    /\ \E sq \in Squares :
          /\ board[sq] # None
          /\ board[sq].color # current_player
          /\ get_possible_moves(Live, sq, FALSE) # <<>>
          /\ get_valid_moves(Live, sq) = <<>>
    /\ \E sq \in Squares : board[sq] = None /\ get_valid_moves(Live, sq) = <<>>

\* C14: once game_state is Checkmate or Stalemate, get_valid_moves is empty
\* for every square, and game_state, the grid and current_player never
\* change again under a caller that draws its moves from get_valid_moves.
C14_Terminal == game_state \in {CHECKMATE, STALEMATE}

C14_NoMoveLeft == \A sq \in Squares : get_valid_moves(Live, sq) = <<>>

C14_TerminalStays ==
    /\ [](C14_Terminal => C14_NoMoveLeft)
    /\ [][C14_Terminal => BoardUnchanged]_vars

C14_Witness ==
    /\ game_state = STALEMATE
    /\ last_result = "True"
    /\ calls < MaxDeepCalls

\* C15: a move flagged is_promotion that is selected in the window is not
\* applied before a kind is chosen.  Selecting it opens the menu and leaves
\* the board unchanged; while the menu is active a click changes the board
\* only by choosing a kind; choosing one of the four kinds applies the
\* pending move with that kind and closes the menu; a click outside the menu
\* closes it with the board unchanged.  The menu is the rectangle of the
\* handler's hit test, edges included; its right edge belongs to no kind.
C15_KindChosen(pos) ==
    /\ InMenu(pos)
    /\ (pos[1] - menu_x) \div SQUARE_SIZE \in 0 .. 3

C15_KindAt(pos) == PromotionPieces[((pos[1] - menu_x) \div SQUARE_SIZE) + 1]

C15_PendingApplied(kind) ==
    /\ last_result' = "True"
    /\ move_history' =
          Append(move_history, [promotion_move EXCEPT !.promotion_piece = kind])
    /\ board'[promotion_move.start] = None
    /\ board'[promotion_move.end].piece_type = kind
    /\ board'[promotion_move.end].color = current_player
    /\ current_player' = Other(current_player)

C15_Step ==
    /\ (~is_promotion_menu_active /\ is_promotion_menu_active')
          => (BoardUnchanged /\ promotion_move'.is_promotion)
    /\ (~is_promotion_menu_active /\ ~BoardUnchanged) => ~last_move'.is_promotion
    /\ (is_promotion_menu_active /\ ~InMenu(last_click'))
          => (~is_promotion_menu_active' /\ BoardUnchanged)
    /\ (is_promotion_menu_active /\ C15_KindChosen(last_click'))
          => (~is_promotion_menu_active' /\ C15_PendingApplied(C15_KindAt(last_click')))
    /\ (is_promotion_menu_active /\ ~C15_KindChosen(last_click')) => BoardUnchanged

C15_PromotionWaitsForChoice == [][C15_Step]_vars

C15_Witness ==
    /\ ~is_promotion_menu_active
    /\ InMenu(last_click)
    /\ last_result = "True"
    /\ last_move.is_promotion
    /\ last_move.promotion_piece = KNIGHT
    /\ board[last_move.end].piece_type = KNIGHT

\* C16: the board created with the standard setup holds 16 pawns and, per
\* color, 2 rooks, 2 knights, 2 bishops, 1 queen and 1 king, all with
\* has_moved = false, with White to move, game_state Active, no
\* en_passant_target and an empty move_history.
C16_Count(color, kind) ==
    Cardinality({sq \in Squares :
                    board[sq].color = color /\ board[sq].piece_type = kind})

C16_CountsOf(color) ==
    /\ C16_Count(color, PAWN) = 8
    /\ C16_Count(color, ROOK) = 2
    /\ C16_Count(color, KNIGHT) = 2
    /\ C16_Count(color, BISHOP) = 2
    /\ C16_Count(color, QUEEN) = 1
    /\ C16_Count(color, KING) = 1

C16_StandardSetup ==
    Live = NewBoard
        => /\ C16_Count(WHITE, PAWN) + C16_Count(BLACK, PAWN) = 16
           /\ C16_CountsOf(WHITE)
           /\ C16_CountsOf(BLACK)
           /\ Cardinality({sq \in Squares : board[sq] # None}) = 32
           /\ \A sq \in Squares : ~board[sq].has_moved
           /\ current_player = WHITE
           /\ game_state = ACTIVE
           /\ en_passant_target = NoSquare
           /\ move_history = <<>>

C16_Witness == Live = NewBoard /\ calls = 0

\* C17: the end squares of a knight's candidates are exactly the in-bounds
\* squares an L-shaped step away that are empty or hold an enemy piece, each
\* once; with nothing else on the board a knight on (4,4) has 8 of them and
\* a knight on (0,0) has 2.
C17_LShaped(from, to) ==
    {Abs(from[1] - to[1]), Abs(from[2] - to[2])} = {1, 2}

C17_Reachable(from) ==
    {to \in Squares :
        /\ C17_LShaped(from, to)
        /\ (board[to] = None \/ board[to].color # board[from].color)}

C17_Alone == Cardinality({sq \in Squares : board[sq] # None}) = 1

C17_Ends(moves) == {moves[i].end : i \in 1 .. Len(moves)}

C17_KnightCandidates ==
    (position # NoSquare /\ board[position].piece_type = KNIGHT)
        => /\ C17_Ends(possible_moves) = C17_Reachable(position)
           /\ Len(possible_moves) = Cardinality(C17_Reachable(position))
           /\ \A i \in 1 .. Len(possible_moves) :
                  possible_moves[i] = PlainMove(position, possible_moves[i].end)
           /\ (C17_Alone /\ position = <<4, 4>>) => Len(possible_moves) = 8
           /\ (C17_Alone /\ position = <<0, 0>>) => Len(possible_moves) = 2

C17_Witness ==
    /\ C17_Alone
    /\ position = <<4, 4>>
    /\ board[position].piece_type = KNIGHT
    /\ Len(possible_moves) = 8

\* C18: a successful make_move passes the turn to the other color, a call
\* that does not succeed leaves current_player unchanged, and on a board
\* started from the standard setup White is to move exactly when
\* move_history has even length.
C18_Step ==
    /\ last_result' = "True" => current_player' = Other(current_player)
    /\ last_result' # "True" => current_player' = current_player

C18_WhiteOnEven == (current_player = WHITE) <=> (Len(move_history) % 2 = 0)

C18_TurnAlternates == [][C18_Step]_vars /\ []C18_WhiteOnEven

C18_Witness ==
    /\ last_result = "True"
    /\ current_player = WHITE
    /\ Len(move_history) > 0
    /\ Len(move_history) % 2 = 0

\* C19: every move of get_valid_moves of a pawn whose end column differs
\* from its start column removes exactly one enemy piece when applied, so a
\* pawn never moves diagonally onto an empty square without a capture.
C19_Pieces(b, color) ==
    Cardinality({sq \in Squares : b.board[sq].color = color})

C19_TakesOne(after) ==
    /\ C19_Pieces(after, current_player) = C19_Pieces(Live, current_player)
    /\ C19_Pieces(after, Other(current_player))
          = C19_Pieces(Live, Other(current_player)) - 1

C19_DiagonalsTake(moves) ==
    \A i \in 1 .. Len(moves) :
        moves[i].end[2] # moves[i].start[2]
            => C19_TakesOne(make_move(Live, moves[i], FALSE).b)

C19_PawnDiagonalCaptures ==
    \A sq \in OwnSquares :
        board[sq].piece_type = PAWN => C19_DiagonalsTake(get_valid_moves(Live, sq))

\* C20: is_position_under_attack counts an enemy pawn as attacking exactly
\* the two squares diagonally forward of it, empty or occupied, and never a
\* square the pawn can only advance straight onto.
C20_Forward(color) == IF color = WHITE THEN -1 ELSE 1

C20_DiagonalForward(p) ==
    {t \in Squares :
        /\ t[1] = p[1] + C20_Forward(board[p].color)
        /\ Abs(t[2] - p[2]) = 1}

\* The pawn on p contributes the square t to is_position_under_attack.
C20_CountedFor(candidates, t) ==
    \E i \in 1 .. Len(candidates) : candidates[i].end = t

C20_PawnAttacksExact(p, candidates) ==
    /\ \A t \in Squares :
          C20_CountedFor(candidates, t) <=> t \in C20_DiagonalForward(p)
    /\ \A t \in C20_DiagonalForward(p) :
          is_position_under_attack(Live, t, Other(board[p].color))

C20_PawnAttacksDiagonals ==
    \A p \in Squares :
        board[p].piece_type = PAWN
            => C20_PawnAttacksExact(p, get_possible_moves(Live, p, TRUE))

\* C21: applying a castle move of get_valid_moves puts the king two columns
\* toward the rook and the rook on the square the king crossed (kingside
\* columns 6 and 5, queenside columns 2 and 3), empties the king's and the
\* rook's original squares, marks both pieces moved and changes no other
\* square.
C21_Home(color) == IF color = WHITE THEN 7 ELSE 0

C21_Marked(color, kind) == [color |-> color, piece_type |-> kind, has_moved |-> TRUE]

C21_Castled(row, king_to, rook_to, rook_from) ==
    /\ board'[<<row, king_to>>] = C21_Marked(current_player, KING)
    /\ board'[<<row, rook_to>>] = C21_Marked(current_player, ROOK)
    /\ board'[<<row, 4>>] = None
    /\ board'[<<row, rook_from>>] = None
    /\ \A sq \in Squares :
          sq \notin {<<row, king_to>>, <<row, rook_to>>, <<row, 4>>, <<row, rook_from>>}
              => board'[sq] = board[sq]

C21_Step ==
    (last_move'.is_castle /\ last_result' = "True")
        => /\ last_move'.start = <<C21_Home(current_player), 4>>
           /\ last_move'.end[2] \in {2, 6}
           /\ last_move'.end[2] = 6 => C21_Castled(C21_Home(current_player), 6, 5, 7)
           /\ last_move'.end[2] = 2 => C21_Castled(C21_Home(current_player), 2, 3, 0)

C21_CastleRelocatesBoth == [][C21_Step]_vars

C21_Witness ==
    /\ last_result = "True"
    /\ last_move.is_castle
    /\ last_move.end = <<0, 2>>
    /\ board[<<0, 3>>].piece_type = ROOK

\* C22: a has_moved flag is never reset: after a step an unmoved piece is a
\* piece that stood unmoved on the same square before, or a newly promoted
\* one.  Once a move of the history started on a king's home square that
\* color has no castle move, and once one started on a rook's corner it has
\* no castle toward that corner, among its candidates or in get_valid_moves.
C22_FlagKept ==
    \A sq \in Squares :
        (board'[sq] # None /\ ~board'[sq].has_moved)
            => \/ board'[sq] = board[sq]
               \/ last_move'.is_promotion /\ last_move'.end = sq

C22_LeftFrom(sq) ==
    \E i \in 1 .. Len(move_history) : move_history[i].start = sq

C22_CastlesIn(moves, to_col) ==
    \E i \in 1 .. Len(moves) : moves[i].is_castle /\ moves[i].end[2] = to_col

C22_NoCastle(color, to_col) ==
    \A sq \in Squares :
        board[sq].color = color
            => /\ ~C22_CastlesIn(get_possible_moves(Live, sq, FALSE), to_col)
               /\ board[sq].piece_type = KING
                     => ~C22_CastlesIn(get_valid_moves(Live, sq), to_col)

C22_RightsLost(color) ==
    /\ C22_LeftFrom(<<C21_Home(color), 4>>)
          => (C22_NoCastle(color, 6) /\ C22_NoCastle(color, 2))
    /\ C22_LeftFrom(<<C21_Home(color), 7>>) => C22_NoCastle(color, 6)
    /\ C22_LeftFrom(<<C21_Home(color), 0>>) => C22_NoCastle(color, 2)

C22_RightsNeverRegained ==
    /\ [][C22_FlagKept]_vars
    /\ [](C22_RightsLost(WHITE) /\ C22_RightsLost(BLACK))

\* The white king went away and came back; f1 and g1 are empty and the rook
\* on h1 is unmoved.
C22_Witness ==
    /\ current_player = WHITE
    /\ C22_LeftFrom(<<7, 4>>)
    /\ board[<<7, 4>>] = C21_Marked(WHITE, KING)
    /\ board[<<7, 5>>] = None
    /\ board[<<7, 6>>] = None
    /\ board[<<7, 7>>] = Piece(WHITE, ROOK)
    /\ ~is_in_check(Live, WHITE)

\* C23: every move the window passes to Board.make_move is a member of
\* get_valid_moves(selected_pos) computed on the position it is applied to,
\* and the cached valid_moves is never out of date: while a square is
\* selected it is get_valid_moves of that square on the current board, and
\* it is empty otherwise.
C23_Member(moves, m) == \E i \in 1 .. Len(moves) : moves[i] = m

C23_Step ==
    calls' # calls
        => /\ selected_pos # NoSquare
           /\ C23_Member(get_valid_moves(Live, selected_pos), last_move')
           /\ last_result' = "True"

C23_CacheFresh ==
    IF selected_pos # NoSquare
    THEN valid_moves = get_valid_moves(Live, selected_pos)
    ELSE valid_moves = <<>>

C23_WindowSubmitsLegalMoves == [][C23_Step]_vars /\ []C23_CacheFresh

\* A move that is no promotion was made through the window and a piece of
\* the other color was selected afterwards.
C23_Witness ==
    /\ calls > 0
    /\ last_result = "True"
    /\ ~last_move.is_promotion
    /\ selected_pos # NoSquare
    /\ valid_moves # <<>>
    /\ board[selected_pos].color = current_player

\* C24: along each direction of a queen, rook or bishop the candidate end
\* squares are exactly the consecutive empty squares from the piece up to
\* the first occupied square, and that square when it holds an enemy piece;
\* no candidate lies behind an occupied square or off the board.
C24_Directions(kind) ==
    {d \in {-1, 0, 1} \X {-1, 0, 1} :
        /\ d # <<0, 0>>
        /\ kind = ROOK => (d[1] = 0 \/ d[2] = 0)
        /\ kind = BISHOP => (d[1] # 0 /\ d[2] # 0)}

C24_At(from, d, i) == <<from[1] + d[1] * i, from[2] + d[2] * i>>

C24_Along(from, d) ==
    {t \in Squares :
        \E i \in 1 .. (BOARD_SIZE - 1) :
            /\ t = C24_At(from, d, i)
            /\ \A j \in 1 .. (i - 1) : board[C24_At(from, d, j)] = None
            /\ (board[t] = None \/ board[t].color # board[from].color)}

C24_Reachable(from) ==
    UNION {C24_Along(from, d) : d \in C24_Directions(board[from].piece_type)}

C24_SlidingCandidates ==
    (position # NoSquare /\ board[position].piece_type \in {QUEEN, ROOK, BISHOP})
        => /\ C17_Ends(possible_moves) = C24_Reachable(position)
           /\ Len(possible_moves) = Cardinality(C24_Reachable(position))
           /\ \A i \in 1 .. Len(possible_moves) :
                  possible_moves[i] = PlainMove(position, possible_moves[i].end)

\* A queen in the middle with an enemy pawn beside it and a pawn of its own
\* color was asked: the first is taken, the second stops the ray.
C24_Witness ==
    /\ position = <<4, 4>>
    /\ board[position] = Piece(WHITE, QUEEN)
    /\ board[<<4, 5>>] = Piece(BLACK, PAWN)
    /\ Cardinality({sq \in Squares : board[sq] # None}) = 2
    /\ <<4, 5>> \in C17_Ends(possible_moves)
    /\ <<4, 6>> \notin C17_Ends(possible_moves)
    /\ Len(possible_moves) = 25

====
